---- MODULE Spec2Model ----
(***************************************************************************)
(* Model of moulin's AGL and Android-kernel builders                       *)
(* (moulin/builders/agl.py, moulin/builders/android_kernel.py).            *)
(*                                                                         *)
(* Python strings are sequences of one-character strings, so that          *)
(* os.path.join, " ".join and utils.escape are computed character by       *)
(* character.  Python lists are sequences of such strings.                 *)
(***************************************************************************)
EXTENDS Integers, Sequences, FiniteSets, TLC

VARIABLES
    entry,      \* the Build Entry handed to get_builder: variant, conf, name, build_dir, src_stamps
    self,       \* the builder object's fields (NoBuilder before construction)
    log,        \* the ninja_syntax.Writer's output, one record per rule/build/newline call
    printed,    \* number of lines written to stdout by print()
    pc,         \* "start", "rules" (rules written), "ready" (builder constructed),
                \* "aborted" (an exception propagated), "exec" (the executor runs the graph)
    calls,      \* number of gen_build() calls made so far
    last,       \* the last operation: its name, status and returned value
    logBefore,  \* log as it was when the last operation started
    selfBefore, \* self as it was when the last operation started
    seen,       \* every sequence get_targets()/gen_build() has returned so far
    produced,   \* executor: paths that exist
    started,    \* executor: indexes (in log) of the edges whose command has started
    finished,   \* executor: indexes (in log) of the edges whose command has finished
    fconf,      \* the 'conf' node handed to _flatten_yocto_conf
    fres        \* the outcome of _flatten_yocto_conf(fconf), NoResult before the call

vars == <<entry, self, log, printed, pc, calls, last, logBefore, selfBefore,
          seen, produced, started, finished, fconf, fres>>

builderVars == <<entry, self, log, printed, pc, calls, last, logBefore,
                 selfBefore, seen>>
execVars == <<produced, started, finished>>
flattenVars == <<fconf, fres>>

(***************************************************************************)
(* Bounds of the model.                                                    *)
(***************************************************************************)
MaxImages == 2      \* longest target_images list
MaxStamps == 2      \* longest src_stamps list
MaxEnv == 2         \* longest env list
MaxCalls == 2       \* gen_build() calls per builder
MaxConf == 2        \* longest 'conf' list handed to _flatten_yocto_conf
MaxGroup == 2       \* longest nested group inside a 'conf' list

SeqsUpTo(S, n) == UNION {[1..k -> S] : k \in 0..n}

(***************************************************************************)
(* String literals.                                                        *)
(***************************************************************************)
SEP == "/"
S_build == <<"b", "u", "i", "l", "d">>
S_agl_init_build_env ==
    <<"a", "g", "l", "-", "i", "n", "i", "t", "-", "b", "u", "i", "l", "d", "-", "e", "n", "v">>
S_space == <<" ">>
S_a_img == <<"a", ".", "i", "m", "g">>
S_b_img == <<"b", ".", "i", "m", "g">>
S_boot_img == <<"b", "o", "o", "t", ".", "i", "m", "g">>
S_abs_img == <<"/", "z">>
S_x == <<"/", "x">>
S_x_slash == <<"/", "x", "/">>
S_out == <<"/", "o", "u", "t">>
S_fetch_stamp ==
    <<"/", "o", "u", "t", "/", ".", "f", "e", "t", "c", "h", ".", "s", "t", "a", "m", "p">>
S_stamp2 == <<"/", "s", "2">>
S_FOO_bar == <<"F", "O", "O", "=", "b", "a", "r">>
S_env_dollar == <<"P", "=", "$", "Q">>
S_env_quote == <<"R", "=", "\"", "\"">>
S_wd_plain == <<"w">>
S_wd_abs == <<"/", "w">>
S_wd_dollar == <<"$", "w">>
S_feat == <<"a", "g", "l", "-", "d", "e", "m", "o">>
S_feat_dollar == <<"$", "(", "f", ")">>
S_machine == <<"h", "3">>
S_machine_quote == <<"\"", "m">>
S_target == <<"i", "m", "g">>
S_target_dollar == <<"$", "t">>
S_name == <<"d", "o", "m", "d">>

(***************************************************************************)
(* Python library functions used by the builders.                          *)
(***************************************************************************)
\* posixpath.join for two components
PathJoin2(path, b) ==
    IF Len(b) > 0 /\ b[1] = SEP THEN b
    ELSE IF Len(path) = 0 \/ path[Len(path)] = SEP THEN path \o b
    ELSE path \o <<SEP>> \o b

\* posixpath.join(a, b, c)
PathJoin3(a, b, c) == PathJoin2(PathJoin2(a, b), c)

\* sep.join(parts)
RECURSIVE StrJoin(_, _)
StrJoin(sep, parts) ==
    IF Len(parts) = 0 THEN <<>>
    ELSE IF Len(parts) = 1 THEN parts[1]
    ELSE parts[1] \o sep \o StrJoin(sep, Tail(parts))

\* s.replace(ch, rep) for a one-character ch
RECURSIVE StrReplace(_, _, _)
StrReplace(s, ch, rep) ==
    IF Len(s) = 0 THEN <<>>
    ELSE (IF s[1] = ch THEN rep ELSE <<s[1]>>) \o StrReplace(Tail(s), ch, rep)

\* moulin.utils.escape: '"' becomes '\"', then '$' becomes '$$'
escape(val) == StrReplace(StrReplace(val, "\"", <<"\\", "\"">>), "$", <<"$", "$">>)

(***************************************************************************)
(* Configuration View (moulin.yaml_wrapper.YamlValue).  A field of the     *)
(* Build Entry is either absent or present with a value; string fields     *)
(* hold strings and list fields hold lists of strings.                     *)
(***************************************************************************)
Absent == [has |-> FALSE, v |-> <<>>]
Present(x) == [has |-> TRUE, v |-> x]

\* YamlValue.get(key, default): the field's value, or the default when absent
YamlGet(conf, key, default) == IF conf[key].has THEN conf[key].v ELSE default

\* YamlValue.__getitem__(key) succeeds only when the field is present
YamlHas(conf, key) == conf[key].has

\* bool(conf.get(key, None)): false when absent; an empty list yields no items either way
YamlTruthy(conf, key) == conf[key].has /\ Len(conf[key].v) > 0

(***************************************************************************)
(* Outcome of a call: a returned value, or a propagated exception.         *)
(***************************************************************************)
Ok(v) == [status |-> "ok", value |-> v]
Raise(kind) == [status |-> kind, value |-> <<>>]

(***************************************************************************)
(* Graph Emission Contract (moulin.ninja_syntax.Writer).  An argument is   *)
(* either a Python str or a Python list; as_list wraps a str in a list.    *)
(***************************************************************************)
PyStr(s) == [t |-> "str", v |-> s]
PyList(l) == [t |-> "list", v |-> l]
as_list(x) == IF x.t = "list" THEN x.v ELSE <<x.v>>

WriterRule(name, command, description, pool, deps, depfile, restat) ==
    [kind |-> "rule", name |-> name, command |-> command, description |-> description,
     pool |-> pool, deps |-> deps, depfile |-> depfile, restat |-> restat]

WriterBuild(outputs, rule, inputs, variables) ==
    [kind |-> "build", outputs |-> as_list(outputs), rule |-> rule,
     inputs |-> as_list(inputs), variables |-> variables]

WriterNewline == [kind |-> "newline"]

\* the build edges of a log, in registration order
Edges(l) == SelectSeq(l, LAMBDA r: r.kind = "build")

(***************************************************************************)
(* moulin/builders/agl.py                                                  *)
(***************************************************************************)
AGL_gen_build_rules(l) ==
    l \o << WriterRule("agl_init_env",
                       <<"cd $agl_dir",
                         "source meta-agl/scripts/aglsetup.sh -m $agl_machine -b $work_dir $agl_features">>,
                       "Initialize AGL build environment", "", "", "", TRUE),
            WriterNewline,
            WriterRule("agl_build",
                       <<"<construct_fetcher_dep_cmd()>", "cd $agl_dir",
                         "source $work_dir/agl-init-build-env", "bitbake $target">>,
                       "AGL Build: $name", "console", "gcc", ".moulin_$name.d", TRUE) >>

AGLBuilder_init(conf, name, build_dir, src_stamps) ==
    [class |-> "AGLBuilder",
     conf |-> conf,
     name |-> name,
     src_stamps |-> src_stamps,
     agl_dir |-> build_dir,
     work_dir |-> YamlGet(conf, "work_dir", S_build),
     agl_features |-> YamlGet(conf, "agl_features", S_build),
     agl_machine |-> YamlGet(conf, "agl_machine", S_build)]

\* get_targets() gone wrong: the images walked from the last to the first
AGL_get_targets_reversed(b) ==
    [i \in 1..Len(b.conf["target_images"].v) |->
        PathJoin3(b.agl_dir, b.work_dir,
                  b.conf["target_images"].v[Len(b.conf["target_images"].v) + 1 - i])]

AGL_get_targets(b) ==
    [i \in 1..Len(b.conf["target_images"].v) |->
        PathJoin3(b.agl_dir, b.work_dir, b.conf["target_images"].v[i])]

AGL_common_variables(b) ==
    [agl_dir |-> b.agl_dir, work_dir |-> b.work_dir,
     agl_features |-> b.agl_features, agl_machine |-> b.agl_machine]

AGL_env_target(b) == PathJoin3(b.agl_dir, b.work_dir, S_agl_init_build_env)

\* the agl_init_env edge gone wrong: registered without the Stamp References
AGL_setup_inputs_none(b) == PyList(<<>>)

\* the inputs of the agl_init_env edge
AGL_setup_inputs(b) == PyList(b.src_stamps)

\* deps gone wrong: the Stamp References alone, env_target forgotten
AGL_deps_stamps_only(b) == PyList(b.src_stamps)

\* deps = env_target
AGL_deps(b) == PyStr(AGL_env_target(b))

\* gen_build()'s targets gone wrong: computed apart from get_targets(), work_dir left out
AGL_gen_build_targets_no_work_dir(b) ==
    [i \in 1..Len(b.conf["target_images"].v) |->
        PathJoin2(b.agl_dir, b.conf["target_images"].v[i])]

\* targets = self.get_targets()
AGL_gen_build_targets(b) == AGL_get_targets(b)

AGL_build_variables(b) ==
    [agl_dir |-> b.agl_dir, work_dir |-> b.work_dir,
     agl_features |-> b.agl_features, agl_machine |-> b.agl_machine,
     target |-> b.conf["build_target"].v, name |-> b.name]

\* gen_build(): the log it leaves and its outcome.  The setup edge is written before
\* target_images and build_target are read, so a missing field raises after it.
AGL_gen_build(b, l) ==
    LET l1 == l \o << WriterBuild(PyStr(AGL_env_target(b)), "agl_init_env",
                                  AGL_setup_inputs(b), AGL_common_variables(b)),
                      WriterNewline >>
    IN  IF ~YamlHas(b.conf, "target_images")
          THEN [log |-> l1, ret |-> Raise("YAMLProcessingError")]
        ELSE IF ~YamlHas(b.conf, "build_target")
          THEN [log |-> l1, ret |-> Raise("YAMLProcessingError")]
        ELSE [log |-> Append(l1, WriterBuild(PyList(AGL_gen_build_targets(b)), "agl_build",
                                             AGL_deps(b), AGL_build_variables(b))),
              ret |-> Ok(AGL_gen_build_targets(b))]

(***************************************************************************)
(* moulin/builders/android_kernel.py                                       *)
(***************************************************************************)
AK_gen_build_rules(l) ==
    l \o << WriterRule("android_kernel_build",
                       <<"export $env", "cd $build_dir", "build/build.sh">>,
                       "Invoke Android Kernel build script", "console", "", "", FALSE),
            WriterNewline >>

AndroidKernel_init(conf, name, build_dir, src_stamps) ==
    [class |-> "AndroidKernel",
     conf |-> conf,
     name |-> name,
     src_stamps |-> src_stamps,
     build_dir |-> build_dir]

AK_get_targets(b) ==
    [i \in 1..Len(b.conf["target_images"].v) |->
        PathJoin2(b.build_dir, b.conf["target_images"].v[i])]

\* env_values
AK_env_values(b) == IF YamlTruthy(b.conf, "env") THEN b.conf["env"].v ELSE <<>>

\* env gone wrong: the values joined without the separating space
AK_env_unspaced(b) == escape(StrJoin(<<>>, AK_env_values(b)))

\* env = utils.escape(" ".join(env_values))
AK_env(b) == escape(StrJoin(S_space, AK_env_values(b)))

\* the inputs of the android_kernel_build edge
AK_inputs(b) == PyList(b.src_stamps)

\* targets = self.get_targets()
AK_gen_build_targets(b) == AK_get_targets(b)

AK_gen_build(b, l) ==
    IF ~YamlHas(b.conf, "target_images")
      THEN [log |-> l, ret |-> Raise("YAMLProcessingError")]
    ELSE [log |-> l \o << WriterBuild(PyList(AK_gen_build_targets(b)), "android_kernel_build",
                                      AK_inputs(b),
                                      [build_dir |-> b.build_dir, env |-> AK_env(b)]),
                          WriterNewline >>,
          ret |-> Ok(AK_gen_build_targets(b))]

(***************************************************************************)
(* Dispatch on the builder's class.                                        *)
(***************************************************************************)
NoBuilder == [class |-> "none"]

get_builder(e) ==
    IF e.variant = "agl"
      THEN AGLBuilder_init(e.conf, e.name, e.build_dir, e.src_stamps)
      ELSE AndroidKernel_init(e.conf, e.name, e.build_dir, e.src_stamps)

gen_build_rules(variant, l) ==
    IF variant = "agl" THEN AGL_gen_build_rules(l) ELSE AK_gen_build_rules(l)

gen_build(b, l) ==
    IF b.class = "AGLBuilder" THEN AGL_gen_build(b, l) ELSE AK_gen_build(b, l)

get_targets(b) ==
    IF ~YamlHas(b.conf, "target_images") THEN Raise("YAMLProcessingError")
    ELSE IF b.class = "AGLBuilder" THEN Ok(AGL_get_targets(b))
    ELSE Ok(AK_get_targets(b))

(***************************************************************************)
(* Build Entries the orchestrator may hand to a builder.                   *)
(***************************************************************************)
ImageNames == {S_a_img, S_b_img}
KernelImageNames == {S_boot_img, S_abs_img}
StampNames == {S_fetch_stamp, S_stamp2}
EnvValues == {S_FOO_bar, S_env_dollar, S_env_quote}

OptImages(names) == {Absent} \cup {Present(l) : l \in SeqsUpTo(names, MaxImages)}
OptEnv == {Absent} \cup {Present(l) : l \in SeqsUpTo(EnvValues, MaxEnv)}
OptWorkDir == {Absent, Present(S_wd_plain), Present(S_wd_abs), Present(S_wd_dollar)}
StampLists == SeqsUpTo(StampNames, MaxStamps)

\* agl_features, agl_machine, build_target: defaulted, plain, needing escapes, target missing
AGLProfiles ==
    { [f |-> Absent, m |-> Absent, t |-> Present(S_target)],
      [f |-> Present(S_feat), m |-> Present(S_machine), t |-> Present(S_target)],
      [f |-> Present(S_feat_dollar), m |-> Present(S_machine_quote),
       t |-> Present(S_target_dollar)],
      [f |-> Present(S_feat), m |-> Present(S_machine), t |-> Absent] }

AGLEntries ==
    { [variant |-> "agl",
       conf |-> [target_images |-> ti, work_dir |-> wd, agl_features |-> p.f,
                 agl_machine |-> p.m, build_target |-> p.t, env |-> Absent],
       name |-> S_name, build_dir |-> bd, src_stamps |-> st] :
      ti \in OptImages(ImageNames), wd \in OptWorkDir, p \in AGLProfiles,
      bd \in {S_x, S_x_slash}, st \in StampLists }

KernelEntries ==
    { [variant |-> "android_kernel",
       conf |-> [target_images |-> ti, work_dir |-> Absent, agl_features |-> Absent,
                 agl_machine |-> Absent, build_target |-> Absent, env |-> ev],
       name |-> S_name, build_dir |-> S_out, src_stamps |-> st] :
      ti \in OptImages(KernelImageNames), ev \in OptEnv, st \in StampLists }

NoResult == [status |-> "none", mark |-> 0, value |-> <<>>]

InitBuilder(entries) ==
    /\ entry \in entries
    /\ self = NoBuilder
    /\ log = <<>>
    /\ printed = 0
    /\ pc = "start"
    /\ calls = 0
    /\ last = [op |-> "none", status |-> "ok", value |-> <<>>]
    /\ logBefore = <<>>
    /\ selfBefore = NoBuilder
    /\ seen = {}

InitExecutor ==
    /\ produced = {}
    /\ started = {}
    /\ finished = {}

InitFlattenIdle ==
    /\ fconf = <<>>
    /\ fres = NoResult

(***************************************************************************)
(* The orchestrator's steps on one Build Entry.                            *)
(***************************************************************************)
\* the builder module's gen_build_rules(generator), once per builder family
GenBuildRules ==
    /\ pc = "start"
    /\ log' = gen_build_rules(entry.variant, log)
    /\ pc' = "rules"
    /\ last' = [op |-> "gen_build_rules", status |-> "ok", value |-> <<>>]
    /\ logBefore' = log
    /\ selfBefore' = self
    /\ UNCHANGED <<entry, self, printed, calls, seen>>
    /\ UNCHANGED <<execVars, flattenVars>>

\* get_builder(conf, name, build_dir, src_stamps, generator)
GetBuilder ==
    /\ pc = "rules"
    /\ self' = get_builder(entry)
    /\ printed' = IF entry.variant = "agl" THEN printed + 7 ELSE printed
    /\ pc' = "ready"
    /\ last' = [op |-> "get_builder", status |-> "ok", value |-> <<>>]
    /\ logBefore' = log
    /\ selfBefore' = self
    /\ UNCHANGED <<entry, log, calls, seen>>
    /\ UNCHANGED <<execVars, flattenVars>>

\* builder.gen_build()
GenBuild ==
    /\ pc = "ready"
    /\ calls < MaxCalls
    /\ LET r == gen_build(self, log)
       IN  /\ log' = r.log
           /\ last' = [op |-> "gen_build", status |-> r.ret.status, value |-> r.ret.value]
           /\ pc' = IF r.ret.status = "ok" THEN "ready" ELSE "aborted"
           /\ seen' = IF r.ret.status = "ok" THEN seen \cup {r.ret.value} ELSE seen
    /\ calls' = calls + 1
    /\ logBefore' = log
    /\ selfBefore' = self
    /\ UNCHANGED <<entry, self, printed>>
    /\ UNCHANGED <<execVars, flattenVars>>

\* builder.get_targets()
GetTargets ==
    /\ pc = "ready"
    /\ LET r == get_targets(self)
       IN  /\ last' = [op |-> "get_targets", status |-> r.status, value |-> r.value]
           /\ pc' = IF r.status = "ok" THEN "ready" ELSE "aborted"
           /\ seen' = IF r.status = "ok" THEN seen \cup {r.value} ELSE seen
    /\ logBefore' = log
    /\ selfBefore' = self
    /\ UNCHANGED <<entry, self, log, printed, calls>>
    /\ UNCHANGED <<execVars, flattenVars>>

\* builder.capture_state(): the body is a docstring only
CaptureState ==
    /\ pc = "ready"
    /\ last' = [op |-> "capture_state", status |-> "ok", value |-> <<>>]
    /\ logBefore' = log
    /\ selfBefore' = self
    /\ UNCHANGED <<entry, self, log, printed, pc, calls, seen>>
    /\ UNCHANGED <<execVars, flattenVars>>

Init == InitBuilder(AGLEntries \cup KernelEntries) /\ InitExecutor /\ InitFlattenIdle

Next ==
    \/ GenBuildRules
    \/ GetBuilder
    \/ GenBuild
    \/ GetTargets
    \/ CaptureState

Spec == Init /\ [][Next]_vars

(***************************************************************************)
(* Vocabulary of the properties.                                           *)
(***************************************************************************)
\* what the last operation appended to the log
Appended == SubSeq(log, Len(logBefore) + 1, Len(log))
\* the last operation only appended to the log
LogExtended == Len(logBefore) <= Len(log) /\ SubSeq(log, 1, Len(logBefore)) = logBefore
\* the elements of a list
Elems(l) == {l[i] : i \in 1..Len(l)}
\* the Build Entry's work_dir, "build" when absent
ConfiguredWorkDir == IF entry.conf.work_dir.has THEN entry.conf.work_dir.v ELSE S_build
\* the Build Entry's env values, none when absent
ConfiguredEnv == IF entry.conf.env.has THEN entry.conf.env.v ELSE <<>>
\* the Target Set the Build Entry describes
ConfiguredTargetSet ==
    [i \in 1..Len(entry.conf.target_images.v) |->
        IF entry.variant = "agl"
          THEN PathJoin3(entry.build_dir, ConfiguredWorkDir, entry.conf.target_images.v[i])
          ELSE PathJoin2(entry.build_dir, entry.conf.target_images.v[i])]
BuildRuleNames == {"agl_build", "android_kernel_build"}
GenBuildReturned == last.op = "gen_build" /\ last.status = "ok"
GetTargetsReturned == last.op = "get_targets" /\ last.status = "ok"

\* C1: every registered build edge that produces the Target Set (rule agl_build or
\* android_kernel_build) lists every supplied Stamp Reference among its inputs.
C1_BuildEdgeInputsCoverStamps ==
    \A i \in 1..Len(log) :
        (log[i].kind = "build" /\ log[i].rule \in BuildRuleNames)
            => Elems(entry.src_stamps) \subseteq Elems(log[i].inputs)

\* C2: a successful AGLBuilder.gen_build() appends exactly two edges, the agl_init_env
\* edge whose single output is join(build-root, work_dir, "agl-init-build-env") and then
\* the agl_build edge whose outputs are the Target Set, and the build edge's inputs
\* include the setup edge's output.
C2_AGLSetupThenBuild ==
    (GenBuildReturned /\ self.class = "AGLBuilder") =>
        /\ LogExtended
        /\ Len(Edges(Appended)) = 2
        /\ Edges(Appended)[1].rule = "agl_init_env"
        /\ Edges(Appended)[1].outputs =
               << PathJoin3(entry.build_dir, ConfiguredWorkDir, S_agl_init_build_env) >>
        /\ Edges(Appended)[2].rule = "agl_build"
        /\ Edges(Appended)[2].outputs = ConfiguredTargetSet
        /\ Edges(Appended)[1].outputs[1] \in Elems(Edges(Appended)[2].inputs)

C2_Witness ==
    /\ GenBuildReturned
    /\ self.class = "AGLBuilder"
    /\ calls = 2
    /\ Len(last.value) = 2
    /\ Len(entry.src_stamps) = 2

\* C3: all calls of get_targets() and gen_build() on an instance return the same
\* sequence; get_targets() leaves the log and the builder's fields as they were; and the
\* sequence gen_build() returns is the outputs of the build edge it registered.
C3_GetTargetsPure ==
    /\ Cardinality(seen) <= 1
    /\ (GetTargetsReturned \/ GenBuildReturned) => seen = {last.value}
    /\ last.op = "get_targets" => (log = logBefore /\ self = selfBefore)
    /\ GenBuildReturned =>
           /\ Len(Edges(Appended)) >= 1
           /\ Edges(Appended)[Len(Edges(Appended))].outputs = last.value

C3_Witness ==
    /\ GetTargetsReturned
    /\ calls >= 1
    /\ Len(last.value) = 2
    /\ last.value[1] # last.value[2]

\* C4: get_targets() returns one entry per configured target_images name, in the
\* declared order, duplicates kept: entry i is join(build-root, name i) for AndroidKernel
\* and join(build-root, work_dir or "build", name i) for AGLBuilder; images
\* [a.img, b.img] with the default work_dir under /x give [/x/build/a.img, /x/build/b.img].
C4_TargetSet ==
    GetTargetsReturned =>
        /\ Len(last.value) = Len(entry.conf.target_images.v)
        /\ last.value = ConfiguredTargetSet
        /\ (/\ entry.variant = "agl"
            /\ entry.build_dir = S_x
            /\ ~entry.conf.work_dir.has
            /\ entry.conf.target_images.v = <<S_a_img, S_b_img>>)
           => last.value =
                << <<"/", "x", "/", "b", "u", "i", "l", "d", "/", "a", ".", "i", "m", "g">>,
                   <<"/", "x", "/", "b", "u", "i", "l", "d", "/", "b", ".", "i", "m", "g">> >>

C4_Witness ==
    /\ GetTargetsReturned
    /\ entry.variant = "agl"
    /\ entry.build_dir = S_x
    /\ ~entry.conf.work_dir.has
    /\ entry.conf.target_images.v = <<S_a_img, S_b_img>>
    /\ last.value[2] =
           <<"/", "x", "/", "b", "u", "i", "l", "d", "/", "b", ".", "i", "m", "g">>

\* the single edge a successful AndroidKernel.gen_build() appends, apart from env
C5_OneKernelEdge ==
    /\ LogExtended
    /\ Len(Edges(Appended)) = 1
    /\ Edges(Appended)[1].rule = "android_kernel_build"
    /\ Edges(Appended)[1].outputs = ConfiguredTargetSet
    /\ Edges(Appended)[1].inputs = entry.src_stamps

\* C5 as stated: a successful AndroidKernel.gen_build() registers exactly one edge, rule
\* android_kernel_build, outputs the Target Set, inputs the Stamp References, and env
\* the configured env values joined by one space.
C5_KernelEdgeRawEnv ==
    (GenBuildReturned /\ self.class = "AndroidKernel") =>
        /\ C5_OneKernelEdge
        /\ Edges(Appended)[1].variables.env = StrJoin(S_space, ConfiguredEnv)

\* C5 amended: a successful AndroidKernel.gen_build() registers exactly one edge, rule
\* android_kernel_build, outputs the Target Set, inputs the Stamp References, and env
\* the escaped form of the configured env values joined by one space; env [FOO=bar],
\* images [boot.img], build-root /out, stamp /out/.fetch.stamp give output /out/boot.img,
\* env FOO=bar and inputs [/out/.fetch.stamp].
C5_KernelEdgeEscapedEnv ==
    (GenBuildReturned /\ self.class = "AndroidKernel") =>
        /\ C5_OneKernelEdge
        /\ Edges(Appended)[1].variables.env = escape(StrJoin(S_space, ConfiguredEnv))
        /\ (/\ ConfiguredEnv = <<S_FOO_bar>>
            /\ entry.conf.target_images.v = <<S_boot_img>>
            /\ entry.src_stamps = <<S_fetch_stamp>>)
           => /\ Edges(Appended)[1].outputs =
                     << <<"/", "o", "u", "t", "/", "b", "o", "o", "t", ".", "i", "m", "g">> >>
              /\ Edges(Appended)[1].variables.env = S_FOO_bar
              /\ S_fetch_stamp \in Elems(Edges(Appended)[1].inputs)

C5_Witness ==
    /\ GenBuildReturned
    /\ self.class = "AndroidKernel"
    /\ entry.conf.env.has
    /\ entry.conf.env.v = <<S_FOO_bar, S_env_dollar>>
    /\ Len(entry.src_stamps) = 2
    /\ Len(last.value) = 2

\* C8: construction registers nothing, and an operation that fails on a missing
\* required field leaves the log exactly as it was before that operation.
C8_NoPartialOutput ==
    /\ last.op = "get_builder" => log = logBefore
    /\ last.status # "ok" => log = logBefore

\* C9: every edge variable taken from the Build Entry configuration holds the escaped
\* form of the configured value.
C9_VariablesEscaped ==
    \A i \in 1..Len(log) :
        log[i].kind = "build" =>
            IF entry.variant = "android_kernel"
              THEN log[i].variables.env = escape(StrJoin(S_space, ConfiguredEnv))
              ELSE /\ log[i].variables.work_dir = escape(ConfiguredWorkDir)
                   /\ entry.conf.agl_features.has =>
                          log[i].variables.agl_features = escape(entry.conf.agl_features.v)
                   /\ entry.conf.agl_machine.has =>
                          log[i].variables.agl_machine = escape(entry.conf.agl_machine.v)
                   /\ log[i].rule = "agl_build" =>
                          log[i].variables.target = escape(entry.conf.build_target.v)

(***************************************************************************)
(* _flatten_yocto_conf (moulin/builders/agl.py) over YAML nodes.  A node   *)
(* is a scalar string or a list of nodes; the mark of an entry of 'conf'   *)
(* is its position in 'conf'.                                              *)
(***************************************************************************)
Scalar(s) == [kind |-> "scalar", val |-> s, items |-> <<>>]
List(items) == [kind |-> "list", val |-> <<>>, items |-> items]
Pair(k, v) == List(<<Scalar(k), Scalar(v)>>)

\* YamlValue.is_list
is_list(node) == node.kind = "list"
\* YamlValue.as_str of a string scalar
as_str(node) == node.val
\* YamlValue.__getitem__(idx) of a list node is defined for 0 <= idx < len
HasItem(node, idx) == idx < Len(node.items)
\* node[idx], idx counted from 0
Item(node, idx) == node.items[idx + 1]

FlattenOk(result) == [status |-> "ok", mark |-> 0, value |-> result]
\* raise YAMLProcessingError("Exptected array on 'conf' node", entry.mark)
FlattenYamlError(mark) == [status |-> "YAMLProcessingError", mark |-> mark, value |-> <<>>]
\* indexing a list node past its end
FlattenIndexError == [status |-> "IndexError", mark |-> 0, value |-> <<>>]

\* x[0] and x[1] both exist
PairReadable(x) == HasItem(x, 0) /\ HasItem(x, 1)

\* the nested group gone wrong: append instead of extend, only the first pair kept
GroupPairs_first_only(e) == << <<as_str(Item(e.items[1], 0)), as_str(Item(e.items[1], 1))>> >>

\* [(x[0].as_str, x[1].as_str) for x in entry]
GroupPairs(e) == [j \in 1..Len(e.items) |-> <<as_str(Item(e.items[j], 0)), as_str(Item(e.items[j], 1))>>]

\* (entry[0].as_str, entry[1].as_str)
EntryPair(e) == <<as_str(Item(e, 0)), as_str(Item(e, 1))>>

\* the loop of _flatten_yocto_conf from entry i on, with the result built so far
RECURSIVE FlattenFrom(_, _, _)
FlattenFrom(conf, i, result) ==
    IF i > Len(conf) THEN FlattenOk(result)
    ELSE IF ~is_list(conf[i]) THEN FlattenYamlError(i)
    ELSE IF ~HasItem(conf[i], 0) THEN FlattenIndexError
    ELSE IF is_list(Item(conf[i], 0))
      THEN IF \A j \in 1..Len(conf[i].items) : PairReadable(conf[i].items[j])
             THEN FlattenFrom(conf, i + 1, result \o GroupPairs(conf[i]))
             ELSE FlattenIndexError
    ELSE IF ~HasItem(conf[i], 1) THEN FlattenIndexError
    ELSE FlattenFrom(conf, i + 1, Append(result, EntryPair(conf[i])))

flatten_yocto_conf(conf) == FlattenFrom(conf, 1, <<>>)

(***************************************************************************)
(* 'conf' nodes handed to _flatten_yocto_conf.                             *)
(***************************************************************************)
K_a == <<"a">>
K_b == <<"b">>
K_c == <<"c">>
V_1 == <<"1">>
V_2 == <<"2">>
V_3 == <<"3">>
PairNodes == {Pair(K_a, V_1), Pair(K_b, V_2), Pair(K_c, V_3)}
GroupNodes == {List(g) : g \in SeqsUpTo(PairNodes, MaxGroup) \ {<<>>}}
MalformedNodes == {Scalar(K_a), List(<<>>), List(<<Scalar(K_a)>>)}
ConfNodes == SeqsUpTo(PairNodes \cup GroupNodes \cup MalformedNodes, MaxConf)

IdleEntry ==
    [variant |-> "android_kernel",
     conf |-> [target_images |-> Absent, work_dir |-> Absent, agl_features |-> Absent,
               agl_machine |-> Absent, build_target |-> Absent, env |-> Absent],
     name |-> S_name, build_dir |-> S_out, src_stamps |-> <<>>]

InitFlatten ==
    /\ InitBuilder({IdleEntry})
    /\ InitExecutor
    /\ fconf \in ConfNodes
    /\ fres = NoResult

\* a caller applies _flatten_yocto_conf to the 'conf' node
Flatten ==
    /\ fres = NoResult
    /\ fres' = flatten_yocto_conf(fconf)
    /\ UNCHANGED fconf
    /\ UNCHANGED <<builderVars, execVars>>

NextFlatten == Flatten

SpecFlatten == InitFlatten /\ [][NextFlatten]_vars

\* an entry that is a (key, value) pair of scalars
IsPairEntry(e) ==
    /\ e.kind = "list"
    /\ Len(e.items) = 2
    /\ e.items[1].kind = "scalar"
    /\ e.items[2].kind = "scalar"
\* an entry that is a non-empty group of pairs
IsGroupEntry(e) ==
    /\ e.kind = "list"
    /\ Len(e.items) >= 1
    /\ \A j \in 1..Len(e.items) : IsPairEntry(e.items[j])
\* an entry the flattener must reject: not a list, or a list of fewer than two elements
\* that is not a group
IsMalformedEntry(e) ==
    \/ e.kind # "list"
    \/ (Len(e.items) < 2 /\ ~IsGroupEntry(e))
\* the pairs one well-formed entry stands for
RECURSIVE PairsOfGroup(_)
PairsOfGroup(items) ==
    IF items = <<>> THEN <<>>
    ELSE << <<items[1].items[1].val, items[1].items[2].val>> >> \o PairsOfGroup(Tail(items))
PairsOfEntry(e) ==
    IF IsPairEntry(e) THEN << <<e.items[1].val, e.items[2].val>> >> ELSE PairsOfGroup(e.items)
\* the concatenation, in entry order, of the pairs of every entry
RECURSIVE Concatenated(_)
Concatenated(conf) ==
    IF conf = <<>> THEN <<>> ELSE PairsOfEntry(Head(conf)) \o Concatenated(Tail(conf))
FlattenCalled == fres.status # "none"
AllWellFormed == \A i \in 1..Len(fconf) : IsPairEntry(fconf[i]) \/ IsGroupEntry(fconf[i])

\* C6: on a list whose entries are pairs or groups of pairs, _flatten_yocto_conf returns
\* the concatenation, in entry order, of each pair or of each group's pairs in inner
\* order, duplicates kept; plain pairs come back unchanged, the empty list gives the
\* empty sequence, and [[(a,1),(b,2)], (c,3)] gives [(a,1),(b,2),(c,3)].
C6_FlattenOneLevel ==
    (FlattenCalled /\ AllWellFormed) =>
        /\ fres.status = "ok"
        /\ fres.value = Concatenated(fconf)
        /\ (\A i \in 1..Len(fconf) : IsPairEntry(fconf[i])) =>
               /\ Len(fres.value) = Len(fconf)
               /\ \A i \in 1..Len(fconf) :
                      fres.value[i] = <<fconf[i].items[1].val, fconf[i].items[2].val>>
        /\ fconf = <<>> => fres.value = <<>>
        /\ fconf = << List(<<Pair(K_a, V_1), Pair(K_b, V_2)>>), Pair(K_c, V_3) >> =>
               fres.value = << <<K_a, V_1>>, <<K_b, V_2>>, <<K_c, V_3>> >>

C6_Witness ==
    /\ FlattenCalled
    /\ fconf = << List(<<Pair(K_a, V_1), Pair(K_b, V_2)>>), Pair(K_c, V_3) >>
    /\ fres.value = << <<K_a, V_1>>, <<K_b, V_2>>, <<K_c, V_3>> >>

\* C7: on a list that holds a malformed entry (not list-typed, or list-typed with fewer
\* than two elements), _flatten_yocto_conf raises YAMLProcessingError carrying the mark
\* of a malformed entry and returns no sequence.
C7_MalformedRejectedWithMark ==
    (FlattenCalled /\ \E i \in 1..Len(fconf) : IsMalformedEntry(fconf[i])) =>
        /\ fres.status = "YAMLProcessingError"
        /\ fres.mark \in {i \in 1..Len(fconf) : IsMalformedEntry(fconf[i])}
        /\ fres.value = <<>>

(***************************************************************************)
(* The graph executor, as the Graph Emission Contract describes it: an     *)
(* edge's command starts only once every declared input exists, a finished *)
(* command leaves its outputs, and the fetch stage delivers the Stamp      *)
(* References at any time.  Edges run in any order the inputs allow.       *)
(***************************************************************************)
ExecEntries ==
    { [variant |-> "agl",
       conf |-> [target_images |-> ti, work_dir |-> wd, agl_features |-> Present(S_feat),
                 agl_machine |-> Present(S_machine), build_target |-> Present(S_target),
                 env |-> Absent],
       name |-> S_name, build_dir |-> S_x, src_stamps |-> st] :
      ti \in {Present(<<S_a_img>>), Present(<<S_a_img, S_b_img>>)},
      wd \in {Absent, Present(S_wd_abs)}, st \in StampLists }
    \cup
    { [variant |-> "android_kernel",
       conf |-> [target_images |-> Present(<<S_boot_img>>), work_dir |-> Absent,
                 agl_features |-> Absent, agl_machine |-> Absent, build_target |-> Absent,
                 env |-> Present(<<S_FOO_bar>>)],
       name |-> S_name, build_dir |-> S_out, src_stamps |-> st] :
      st \in StampLists }

InitExec == InitBuilder(ExecEntries) /\ InitExecutor /\ InitFlattenIdle

\* graph generation is over; the executor takes the written graph
Execute ==
    /\ pc = "ready"
    /\ pc' = "exec"
    /\ UNCHANGED <<entry, self, log, printed, calls, last, logBefore, selfBefore, seen>>
    /\ UNCHANGED <<execVars, flattenVars>>

\* the fetch stage completes a Stamp Reference
FetchStamp ==
    /\ pc = "exec"
    /\ \E s \in Elems(entry.src_stamps) \ produced :
           produced' = produced \cup {s}
    /\ UNCHANGED <<started, finished>>
    /\ UNCHANGED <<builderVars, flattenVars>>

\* the executor starts the command of an edge whose declared inputs all exist
StartEdge ==
    /\ pc = "exec"
    /\ \E i \in 1..Len(log) :
           /\ log[i].kind = "build"
           /\ i \notin started
           /\ Elems(log[i].inputs) \subseteq produced
           /\ started' = started \cup {i}
    /\ UNCHANGED <<produced, finished>>
    /\ UNCHANGED <<builderVars, flattenVars>>

\* a started command finishes and its outputs exist
FinishEdge ==
    /\ pc = "exec"
    /\ \E i \in started \ finished :
           /\ finished' = finished \cup {i}
           /\ produced' = produced \cup Elems(log[i].outputs)
    /\ UNCHANGED started
    /\ UNCHANGED <<builderVars, flattenVars>>

NextExec ==
    \/ GenBuildRules
    \/ GetBuilder
    \/ GenBuild
    \/ Execute
    \/ FetchStamp
    \/ StartEdge
    \/ FinishEdge

SpecExec == InitExec /\ [][NextExec]_vars

\* the paths edge i of the log depends on, directly or through at most n further edges
RECURSIVE DependsWithin(_, _)
DependsWithin(i, n) ==
    IF n = 0 THEN Elems(log[i].inputs)
    ELSE LET nearer == DependsWithin(i, n - 1)
         IN  nearer \cup
             UNION { Elems(log[j].inputs) :
                     j \in { k \in 1..Len(log) :
                             /\ log[k].kind = "build"
                             /\ Elems(log[k].outputs) \cap nearer # {} } }
DependsOn(i) == DependsWithin(i, Len(Edges(log)))

\* C10: every edge that produces the Target Set depends on every Stamp Reference
\* directly or through a chain of declared inputs; no build command has started while a
\* Stamp Reference is missing, and no agl_build command has started before an
\* agl_init_env command has finished.
C10_BuildAfterStampsAndSetup ==
    /\ \A i \in 1..Len(log) :
           (log[i].kind = "build" /\ log[i].rule \in BuildRuleNames)
               => Elems(entry.src_stamps) \subseteq DependsOn(i)
    /\ \A i \in started :
           log[i].rule \in BuildRuleNames =>
               /\ Elems(entry.src_stamps) \subseteq produced
               /\ log[i].rule = "agl_build" =>
                      \E j \in finished :
                          /\ log[j].rule = "agl_init_env"
                          /\ Elems(log[j].outputs) \subseteq Elems(log[i].inputs)

C10_Witness ==
    /\ pc = "exec"
    /\ Cardinality(Elems(entry.src_stamps)) = 2
    /\ \E i \in started : log[i].rule = "agl_build" /\ i \in finished
    /\ Elems(last.value) \subseteq produced

====
